---- MODULE Spec2Model ----
(***************************************************************************)
(* Visit scheduler and invoice generator of the cleaning-business app.     *)
(* The hosted store is modelled as tables (sequences of rows, a row's id   *)
(* being its position); every request handler is one action.               *)
(***************************************************************************)
EXTENDS Integers, Sequences, FiniteSets, TLC

\* ------------------------------------------------------------------ bounds
\* Writing requests a behaviour serves after the initial state.
MaxRequests == 3
\* Rows the visits table can hold.
MaxVisits == 12
\* Rows the estimates table can hold.
MaxEstimates == 2
\* Requests that can be in flight together.
MaxInFlight == 2
\* Visit ids one create-invoice form can carry.
MaxSelected == 2

\* ------------------------------------------------------- optional values
\* SQL NULL / Python None.  An optional value is NULL or Some(x).
NULL == <<>>
Some(x) == <<x>>
Val(o) == o[1]

\* ------------------------------------------------------------------ text
\* Text is a sequence of one-character strings.
Digits == {"0", "1", "2", "3", "4", "5", "6", "7", "8", "9"}

DigitVal(c) ==
    CASE c = "0" -> 0 [] c = "1" -> 1 [] c = "2" -> 2 [] c = "3" -> 3
      [] c = "4" -> 4 [] c = "5" -> 5 [] c = "6" -> 6 [] c = "7" -> 7
      [] c = "8" -> 8 [] c = "9" -> 9

DigitChar(d) ==
    CASE d = 0 -> "0" [] d = 1 -> "1" [] d = 2 -> "2" [] d = 3 -> "3"
      [] d = 4 -> "4" [] d = 5 -> "5" [] d = 6 -> "6" [] d = 7 -> "7"
      [] d = 8 -> "8" [] d = 9 -> "9"

IsDigits(s) == Len(s) > 0 /\ \A i \in 1..Len(s) : s[i] \in Digits

RECURSIVE DigitsToNat(_)
DigitsToNat(s) ==
    IF s = <<>> THEN 0
    ELSE 10 * DigitsToNat(SubSeq(s, 1, Len(s) - 1)) + DigitVal(s[Len(s)])

\* str.replace(ch, '')
RemoveChar(s, ch) == SelectSeq(s, LAMBDA c : c # ch)

\* str.strip()
RECURSIVE LStrip(_)
LStrip(s) == IF s # <<>> /\ s[1] = " " THEN LStrip(Tail(s)) ELSE s
RECURSIVE RStrip(_)
RStrip(s) ==
    IF s # <<>> /\ s[Len(s)] = " " THEN RStrip(SubSeq(s, 1, Len(s) - 1)) ELSE s
Strip(s) == LStrip(RStrip(s))

\* str.split('-')
RECURSIVE SplitDash(_)
SplitDash(s) ==
    IF \A i \in 1..Len(s) : s[i] # "-" THEN << s >>
    ELSE LET k == CHOOSE i \in 1..Len(s) :
                    s[i] = "-" /\ \A j \in 1..(i - 1) : s[j] # "-"
         IN  << SubSeq(s, 1, k - 1) >> \o SplitDash(SubSeq(s, k + 1, Len(s)))

\* float(Decimal(text)) on whole amounts: an optional sign and digits.
\* NULL stands for InvalidOperation.
ParseDecimal(s) ==
    IF IsDigits(s) THEN Some(DigitsToNat(s))
    ELSE IF Len(s) > 1 /\ s[1] = "-" /\ IsDigits(Tail(s))
         THEN Some(0 - DigitsToNat(Tail(s)))
    ELSE IF Len(s) > 1 /\ s[1] = "+" /\ IsDigits(Tail(s))
         THEN Some(DigitsToNat(Tail(s)))
    ELSE NULL

\* ------------------------------------------------------------------ dates
\* A date is its proleptic Gregorian ordinal (date.toordinal()).
IsLeap(y) == (y % 4 = 0 /\ y % 100 # 0) \/ y % 400 = 0

DaysInMonth(y, m) ==
    IF m = 2 THEN (IF IsLeap(y) THEN 29 ELSE 28)
    ELSE IF m \in {4, 6, 9, 11} THEN 30
    ELSE 31

RECURSIVE DaysBeforeMonth(_, _)
DaysBeforeMonth(y, m) ==
    IF m = 1 THEN 0 ELSE DaysBeforeMonth(y, m - 1) + DaysInMonth(y, m - 1)

ToOrdinal(y, m, d) ==
    LET p == y - 1
    IN  365 * p + (p \div 4) - (p \div 100) + (p \div 400) + DaysBeforeMonth(y, m) + d

\* datetime.strptime(text, '%Y-%m-%d').date(): a four-digit year, a month and
\* a day of one or two digits that name a calendar date.  NULL stands for
\* ValueError.
ParseDate(text) ==
    LET parts == SplitDash(text)
    IN  IF /\ Len(parts) = 3
           /\ \A i \in 1..3 : IsDigits(parts[i])
           /\ Len(parts[1]) = 4 /\ Len(parts[2]) <= 2 /\ Len(parts[3]) <= 2
        THEN LET y == DigitsToNat(parts[1])
                 m == DigitsToNat(parts[2])
                 d == DigitsToNat(parts[3])
             IN  IF y >= 1 /\ m \in 1..12 /\ d \in 1..DaysInMonth(y, m)
                 THEN Some(ToOrdinal(y, m, d)) ELSE NULL
        ELSE NULL

\* date.today() of every request the model serves.
Today == ToOrdinal(2026, 11, 5)

\* -------------------------------------------------------------- the store
Users == {"u1", "u2"}
ClientIds == {"c1", "c2"}

VARIABLES
    clients,    \* client id -> row
    estimates,  \* sequence of estimate rows
    visits,     \* sequence of visit rows
    invoices,   \* sequence of invoice rows
    clock,      \* utcnow(): the writes the store has taken so far
    last,       \* the route of the last request that wrote to the store
    response,   \* what the last estimate, public or view request answered
    pending     \* requests in flight: what each has read and not yet written

vars == <<clients, estimates, visits, invoices, clock, last, response, pending>>

\* A python value is truthy.
TruthyText(o) == o # NULL /\ Val(o) # ""
TruthyNum(o) == o # NULL /\ Val(o) # 0

VisitRow(client_id, user_id, estimate_id, day, time, recurring, frequency, price) ==
    [client_id |-> client_id, user_id |-> user_id, estimate_id |-> estimate_id,
     scheduled_date |-> day, scheduled_time |-> time, status |-> "scheduled",
     is_recurring |-> recurring, recurring_frequency |-> frequency,
     price |-> price, invoice_id |-> NULL,
     completion_notes |-> NULL, completed_at |-> NULL]

\* No request of a route that answers through response has been served.
NoResponse == [route |-> "none", outcome |-> "none", rows |-> {}]

\* The clock of the initial state: the requests served before it.
StartClock == 4

\* The model serves requests until the clock reaches its bound.
Serving == clock < StartClock + MaxRequests

\* What a request does to the store.  A request that leaves every table as
\* it was (not found, rejected, an update matching no row) is a stuttering
\* step; one that writes takes the next clock value and is remembered as the
\* last route that wrote.
Commit(op, vs, invs) ==
    IF vs = visits /\ invs = invoices
    THEN UNCHANGED vars
    ELSE /\ Len(vs) <= MaxVisits
         /\ clock' = clock + 1
         /\ visits' = vs
         /\ invoices' = invs
         /\ last' = op
         /\ UNCHANGED <<clients, estimates, response, pending>>

\* ----------------------------------------------------------- schedule
get_interval_days(frequency) ==
    IF frequency = "weekly" THEN 7
    ELSE IF frequency = "biweekly" THEN 14
    ELSE IF frequency = "monthly" THEN 30
    ELSE 0

\* The client row of the session's business, or NULL.
ClientOf(client_id, user_id) ==
    IF client_id \in DOMAIN clients /\ clients[client_id].user_id = user_id
    THEN Some(clients[client_id]) ELSE NULL

\* The id of the client's most recently accepted estimate, or NULL.
LatestAcceptedEstimate(client_id) ==
    LET ids == {e \in 1..Len(estimates) :
                    /\ estimates[e].client_id = client_id
                    /\ estimates[e].status = "accepted"}
    IN  IF ids = {} THEN NULL
        ELSE Some(CHOOSE e \in ids : \A f \in ids :
                    Val(estimates[f].accepted_at) <= Val(estimates[e].accepted_at))

\* price_str -> the parsed price (NULL when absent or unparseable).
ParsePrice(price_str) ==
    LET s == Strip(price_str)
    IN  IF s = <<>> THEN NULL
        ELSE ParseDecimal(Strip(RemoveChar(RemoveChar(s, "$"), ",")))

\* The form is rejected (errors is not empty).
ScheduleErrors(start_date_str, price_str) ==
    \/ ParseDate(Strip(start_date_str)) = NULL
    \/ ~TruthyNum(ParsePrice(price_str))

\* visits_to_create of schedule_visits.
ScheduleRows(client_id, user_id, start_date, schedule_type, recurring_frequency, scheduled_time, price) ==
    LET estimate_id == LatestAcceptedEstimate(client_id)
        interval == get_interval_days(recurring_frequency)
    IN  IF schedule_type = "one_time"
        THEN << VisitRow(client_id, user_id, estimate_id, start_date, scheduled_time,
                         FALSE, NULL, price) >>
        ELSE [i \in 1..8 |->
                VisitRow(client_id, user_id, estimate_id,
                         start_date + (i - 1) * interval, scheduled_time,
                         TRUE, Some(recurring_frequency), price)]

schedule_visits(user_id, client_id, start_date_str, schedule_type, recurring_frequency, scheduled_time, price_str) ==
    IF ClientOf(client_id, user_id) = NULL \/ ScheduleErrors(start_date_str, price_str)
    THEN UNCHANGED vars
    ELSE Commit("schedule_visits",
                visits \o ScheduleRows(client_id, user_id, Val(ParseDate(Strip(start_date_str))),
                                       schedule_type, recurring_frequency, scheduled_time,
                                       ParsePrice(price_str)),
                invoices)

\* ------------------------------------------------------- rolling window
\* A variant of the query that forgets the date filter.
FutureVisits_AnyDate(vs, user_id, client_id) ==
    {i \in 1..Len(vs) :
        /\ vs[i].client_id = client_id
        /\ vs[i].user_id = user_id
        /\ vs[i].status = "scheduled"
        /\ vs[i].is_recurring}

\* The rows maintain_rolling_window's query returns: the client's scheduled
\* recurring visits dated today or later (their ids).
FutureVisits(vs, user_id, client_id) ==
    {i \in 1..Len(vs) :
        /\ vs[i].client_id = client_id
        /\ vs[i].user_id = user_id
        /\ vs[i].status = "scheduled"
        /\ vs[i].is_recurring
        /\ vs[i].scheduled_date >= Today}

\* The rows the query may return first (order by scheduled_date desc; the
\* order among equal dates is the store's).
TopRows(vs, future) ==
    {i \in future : \A j \in future : vs[j].scheduled_date <= vs[i].scheduled_date}

\* A variant that fills the window one visit too far.
WindowRows_Nine(vs, user_id, client_id, estimate_id, frequency, price, top) ==
    LET future == FutureVisits(vs, user_id, client_id)
        k == Cardinality(future)
        last_date == IF future # {} THEN vs[top].scheduled_date ELSE Today
        interval == get_interval_days(frequency)
    IN  IF k >= 9 THEN <<>>
        ELSE [j \in 1..(9 - k) |->
                VisitRow(client_id, user_id, estimate_id, last_date + j * interval,
                         NULL, TRUE, Some(frequency), price)]

\* A variant that stops one visit short of the window.
WindowRows_Seven(vs, user_id, client_id, estimate_id, frequency, price, top) ==
    LET future == FutureVisits(vs, user_id, client_id)
        k == Cardinality(future)
        last_date == IF future # {} THEN vs[top].scheduled_date ELSE Today
        interval == get_interval_days(frequency)
    IN  IF k >= 7 THEN <<>>
        ELSE [j \in 1..(7 - k) |->
                VisitRow(client_id, user_id, estimate_id, last_date + j * interval,
                         NULL, TRUE, Some(frequency), price)]

\* A variant that prices the new visits at zero when no price is at hand.
WindowRows_ZeroPrice(vs, user_id, client_id, estimate_id, frequency, price, top) ==
    LET future == FutureVisits(vs, user_id, client_id)
        k == Cardinality(future)
        last_date == IF future # {} THEN vs[top].scheduled_date ELSE Today
        carried == IF future # {} /\ price = NULL /\ TruthyNum(vs[top].price)
                   THEN vs[top].price
                   ELSE IF price = NULL THEN Some(0) ELSE price
        interval == get_interval_days(frequency)
    IN  IF k >= 8 THEN <<>>
        ELSE [j \in 1..(8 - k) |->
                VisitRow(client_id, user_id, estimate_id, last_date + j * interval,
                         NULL, TRUE, Some(frequency), carried)]

\* visits_to_create of maintain_rolling_window, top being future_visits[0].
WindowRows(vs, user_id, client_id, estimate_id, frequency, price, top) ==
    LET future == FutureVisits(vs, user_id, client_id)
        k == Cardinality(future)
        last_date == IF future # {} THEN vs[top].scheduled_date ELSE Today
        carried == IF future # {} /\ price = NULL /\ TruthyNum(vs[top].price)
                   THEN vs[top].price ELSE price
        interval == get_interval_days(frequency)
    IN  IF k >= 8 THEN <<>>
        ELSE [j \in 1..(8 - k) |->
                VisitRow(client_id, user_id, estimate_id, last_date + j * interval,
                         NULL, TRUE, Some(frequency), carried)]

\* The table after maintain_rolling_window.
maintain_rolling_window(vs, user_id, client_id, estimate_id, frequency, price, top) ==
    vs \o WindowRows(vs, user_id, client_id, estimate_id, frequency, price, top)

\* ------------------------------------------------------------- complete
\* The row the handler reads first, or NULL (not found).
VisitOf(visit_id, user_id) ==
    IF visit_id \in 1..Len(visits) /\ visits[visit_id].user_id = user_id
    THEN Some(visits[visit_id]) ELSE NULL

\* update({status, completion_notes, completed_at}).eq(id).eq(user_id)
MarkComplete(vs, visit_id, user_id, notes, now) ==
    [i \in 1..Len(vs) |->
        IF i = visit_id /\ vs[i].user_id = user_id
        THEN [vs[i] EXCEPT !.status = "completed", !.completion_notes = notes,
                           !.completed_at = Some(now)]
        ELSE vs[i]]

\* A variant of the test that looks at the flag alone.
TriggersWindow_FlagOnly(visit) == visit.is_recurring

\* The handler's test before it replenishes.
TriggersWindow(visit) ==
    visit.is_recurring /\ TruthyText(visit.recurring_frequency)

complete_visit(user_id, visit_id, notes) ==
    LET found == VisitOf(visit_id, user_id)
    IN  IF found = NULL THEN UNCHANGED vars
        ELSE LET visit == Val(found)
                 done == MarkComplete(visits, visit_id, user_id, notes, clock)
                 future == FutureVisits(done, user_id, visit.client_id)
             IN  IF TriggersWindow(visit)
                 THEN \E top \in (IF future = {} THEN {0} ELSE TopRows(done, future)) :
                        Commit("complete_visit",
                               maintain_rolling_window(done, user_id, visit.client_id,
                                    visit.estimate_id, Val(visit.recurring_frequency),
                                    visit.price, top),
                               invoices)
                 ELSE Commit("complete_visit", done, invoices)

\* The JSON route: the same update, nothing else.
api_complete_visit(user_id, visit_id, notes) ==
    Commit("api_complete_visit",
           MarkComplete(visits, visit_id, user_id, notes, clock), invoices)

\* ------------------------------------------- complete, with store failures
\* complete_visit inside its try/except: any store call can raise, which
\* ends the request with the flash "Failed to complete visit."; what earlier
\* calls wrote stays written.
StoreCalls == {"lookup", "update", "count", "insert"}

\* What a completion answers (its flash message) and does to the visits.
CommitAnswered(op, vs, outcome) ==
    /\ Len(vs) <= MaxVisits
    /\ visits' = vs
    /\ response' = [route |-> op, outcome |-> outcome, rows |-> {}]
    /\ IF vs = visits
       THEN UNCHANGED <<clock, last>>
       ELSE clock' = clock + 1 /\ last' = op
    /\ UNCHANGED <<clients, estimates, invoices, pending>>

\* A variant in which the completion is taken back when replenishment fails.
AfterWindowFailure_RolledBack(before, done) == before

\* The visits once replenishment has raised: the completion update was its
\* own store call and stays.
AfterWindowFailure(before, done) == done

\* failed is the store call that raises, or "none".
complete_visit_try(user_id, visit_id, notes, failed) ==
    LET found == VisitOf(visit_id, user_id)
    IN  IF failed = "lookup"
        THEN CommitAnswered("complete_visit", visits, "failed")
        ELSE IF found = NULL
        THEN CommitAnswered("complete_visit", visits, "not_found")
        ELSE IF failed = "update"
        THEN CommitAnswered("complete_visit", visits, "failed")
        ELSE LET visit == Val(found)
                 done == MarkComplete(visits, visit_id, user_id, notes, clock)
                 future == FutureVisits(done, user_id, visit.client_id)
             IN  IF ~TriggersWindow(visit)
                 THEN CommitAnswered("complete_visit", done, "completed")
                 ELSE IF failed = "count" \/ (failed = "insert" /\ Cardinality(future) < 8)
                 THEN CommitAnswered("complete_visit", AfterWindowFailure(visits, done), "failed")
                 ELSE \E top \in (IF future = {} THEN {0} ELSE TopRows(done, future)) :
                        CommitAnswered("complete_visit",
                               maintain_rolling_window(done, user_id, visit.client_id,
                                    visit.estimate_id, Val(visit.recurring_frequency),
                                    visit.price, top),
                               "completed")

\* --------------------------------------------------------------- cancel
\* A variant of the update that forgets the id filter.
MarkCancelled_AllOfUser(vs, visit_id, user_id) ==
    [i \in 1..Len(vs) |->
        IF vs[i].user_id = user_id /\ vs[i].status = "scheduled"
        THEN [vs[i] EXCEPT !.status = "cancelled"]
        ELSE vs[i]]

\* A variant of the update that forgets the status filter.
MarkCancelled_AnyStatus(vs, visit_id, user_id) ==
    [i \in 1..Len(vs) |->
        IF i = visit_id /\ vs[i].user_id = user_id
        THEN [vs[i] EXCEPT !.status = "cancelled"]
        ELSE vs[i]]

\* update({status: cancelled}).eq(id).eq(user_id).eq(status, scheduled)
MarkCancelled(vs, visit_id, user_id) ==
    [i \in 1..Len(vs) |->
        IF i = visit_id /\ vs[i].user_id = user_id /\ vs[i].status = "scheduled"
        THEN [vs[i] EXCEPT !.status = "cancelled"]
        ELSE vs[i]]

cancel_visit(user_id, visit_id) ==
    Commit("cancel_visit", MarkCancelled(visits, visit_id, user_id), invoices)

\* ----------------------------------------------------------- reschedule
\* A variant of the update that puts the visit back on the schedule.
MoveVisit_Reopens(vs, visit_id, user_id, day, time) ==
    [i \in 1..Len(vs) |->
        IF i = visit_id /\ vs[i].user_id = user_id
        THEN [vs[i] EXCEPT !.scheduled_date = day, !.scheduled_time = time,
                           !.status = "scheduled"]
        ELSE vs[i]]

\* update({scheduled_date, scheduled_time}).eq(id).eq(user_id)
MoveVisit(vs, visit_id, user_id, day, time) ==
    [i \in 1..Len(vs) |->
        IF i = visit_id /\ vs[i].user_id = user_id
        THEN [vs[i] EXCEPT !.scheduled_date = day, !.scheduled_time = time]
        ELSE vs[i]]

reschedule_visit(user_id, visit_id, new_date_str, scheduled_time) ==
    IF VisitOf(visit_id, user_id) = NULL \/ ParseDate(Strip(new_date_str)) = NULL
    THEN UNCHANGED vars
    ELSE Commit("reschedule_visit",
                MoveVisit(visits, visit_id, user_id, Val(ParseDate(Strip(new_date_str))),
                          scheduled_time),
                invoices)

\* -------------------------------------------------------------- invoices
\* get_visit_price: the visit's own price, else its estimate's, else 0.
get_visit_price(visit) ==
    IF visit.price # NULL THEN Val(visit.price)
    ELSE IF visit.estimate_id # NULL
            /\ estimates[Val(visit.estimate_id)].price_per_visit # 0
         THEN estimates[Val(visit.estimate_id)].price_per_visit
    ELSE 0

\* int(text): blanks around an optional sign and digits; NULL for ValueError.
ParseInt(s) == ParseDecimal(Strip(s))

RECURSIVE NatToDigits(_)
NatToDigits(n) ==
    IF n < 10 THEN << DigitChar(n) >>
    ELSE NatToDigits(n \div 10) \o << DigitChar(n % 10) >>

RECURSIVE ZeroPad(_, _)
ZeroPad(s, width) == IF Len(s) >= width THEN s ELSE ZeroPad(<<"0">> \o s, width)

\* f"{n:04d}"
Format04d(n) ==
    IF n >= 0 THEN ZeroPad(NatToDigits(n), 4)
    ELSE <<"-">> \o ZeroPad(NatToDigits(0 - n), 3)

InvPrefix == <<"I", "N", "V", "-">>

\* The business's most recently created invoice (its id), or NULL.
LatestInvoice(invs, user_id) ==
    LET ids == {i \in 1..Len(invs) : invs[i].user_id = user_id}
    IN  IF ids = {} THEN NULL
        ELSE Some(CHOOSE i \in ids : \A j \in ids : invs[j].created_at <= invs[i].created_at)

\* A variant that reissues the latest number.
generate_invoice_number_Same(invs, user_id) ==
    LET latest == LatestInvoice(invs, user_id)
    IN  IF latest = NULL THEN InvPrefix \o Format04d(1)
        ELSE invs[Val(latest)].invoice_number

generate_invoice_number(invs, user_id) ==
    LET latest == LatestInvoice(invs, user_id)
        first == InvPrefix \o Format04d(1)
    IN  IF latest = NULL \/ invs[Val(latest)].invoice_number = <<>> THEN first
        ELSE LET parts == SplitDash(invs[Val(latest)].invoice_number)
                 num == IF Len(parts) >= 2 THEN ParseInt(parts[2]) ELSE NULL
             IN  IF num = NULL THEN first
                 ELSE InvPrefix \o Format04d(Val(num) + 1)

\* secrets.token_urlsafe(16): a value no earlier request drew.
generate_public_token(now) == Some(now)

\* The client's completed visits without an invoice (their ids).
AvailableVisits(vs, user_id, client_id) ==
    {i \in 1..Len(vs) :
        /\ vs[i].client_id = client_id
        /\ vs[i].user_id = user_id
        /\ vs[i].status = "completed"
        /\ vs[i].invoice_id = NULL}

RECURSIVE SumPrices(_, _)
SumPrices(vs, ids) ==
    IF ids = {} THEN 0
    ELSE LET i == CHOOSE j \in ids : TRUE
         IN  get_visit_price(vs[i]) + SumPrices(vs, ids \ {i})

\* A variant of the link update that forgets the filter on the business.
LinkVisits_AnyOwner(vs, selected_visit_ids, user_id, invoice_id) ==
    [i \in 1..Len(vs) |->
        IF i \in selected_visit_ids
        THEN [vs[i] EXCEPT !.invoice_id = Some(invoice_id)]
        ELSE vs[i]]

\* update({invoice_id}).in_(id, selected_visit_ids).eq(user_id)
LinkVisits(vs, selected_visit_ids, user_id, invoice_id) ==
    [i \in 1..Len(vs) |->
        IF i \in selected_visit_ids /\ vs[i].user_id = user_id
        THEN [vs[i] EXCEPT !.invoice_id = Some(invoice_id)]
        ELSE vs[i]]

create_invoice(user_id, client_id, selected_visit_ids) ==
    LET available_visits == AvailableVisits(visits, user_id, client_id)
        selected_visits == available_visits \cap selected_visit_ids
        subtotal == SumPrices(visits, selected_visits)
        invoice_id == Len(invoices) + 1
    IN  IF \/ ClientOf(client_id, user_id) = NULL
           \/ selected_visit_ids = {}
           \/ selected_visits = {}
        THEN UNCHANGED vars
        ELSE Commit("create_invoice",
                    LinkVisits(visits, selected_visit_ids, user_id, invoice_id),
                    Append(invoices,
                        [client_id |-> client_id, user_id |-> user_id,
                         invoice_number |-> generate_invoice_number(invoices, user_id),
                         subtotal |-> subtotal, total |-> subtotal, status |-> "draft",
                         public_token |-> generate_public_token(clock),
                         created_at |-> clock, sent_at |-> NULL, paid_at |-> NULL]))

\* The invoice row the session's business owns, or NULL.
InvoiceOf(invoice_id, user_id) ==
    IF invoice_id \in 1..Len(invoices) /\ invoices[invoice_id].user_id = user_id
    THEN Some(invoices[invoice_id]) ELSE NULL

\* update({public_token}).eq(id) when the invoice has none.
WithPublicToken(invs, invoice_id, now) ==
    IF invs[invoice_id].public_token # NULL THEN invs
    ELSE [invs EXCEPT ![invoice_id].public_token = generate_public_token(now)]

\* update({status: sent, sent_at}).eq(id)
MarkInvoiceSent(invs, invoice_id, now) ==
    [invs EXCEPT ![invoice_id].status = "sent", ![invoice_id].sent_at = Some(now)]

send_invoice(user_id, invoice_id, send_method) ==
    LET found == InvoiceOf(invoice_id, user_id)
    IN  IF found = NULL THEN UNCHANGED vars
        ELSE LET tokened == WithPublicToken(invoices, invoice_id, clock)
                 client == clients[Val(found).client_id]
             IN  IF send_method = "email" /\ ~TruthyText(client.email)
                 THEN Commit("send_invoice", visits, tokened)
                 ELSE IF send_method \in {"email", "text"}
                 THEN Commit("send_invoice", visits, MarkInvoiceSent(tokened, invoice_id, clock))
                 ELSE Commit("send_invoice", visits, tokened)

\* update({status: paid, paid_at}).eq(id).eq(user_id)
MarkPaid(invs, invoice_id, user_id, now) ==
    [k \in 1..Len(invs) |->
        IF k = invoice_id /\ invs[k].user_id = user_id
        THEN [invs[k] EXCEPT !.status = "paid", !.paid_at = Some(now)]
        ELSE invs[k]]

mark_paid(user_id, invoice_id) ==
    Commit("mark_paid", visits, MarkPaid(invoices, invoice_id, user_id, clock))

\* ------------------------------------------------------------- estimates
\* What a request of an estimate route does: it answers, and when it changed
\* a table it takes the next clock value.
CommitEst(op, ests, cls, outcome) ==
    /\ Len(ests) <= MaxEstimates
    /\ estimates' = ests
    /\ clients' = cls
    /\ response' = [route |-> op, outcome |-> outcome, rows |-> {}]
    /\ IF ests = estimates /\ cls = clients
       THEN UNCHANGED <<clock, last>>
       ELSE clock' = clock + 1 /\ last' = op
    /\ UNCHANGED <<visits, invoices, pending>>

\* The estimate row the session's business owns, or NULL.
EstimateOf(estimate_id, user_id) ==
    IF estimate_id \in 1..Len(estimates) /\ estimates[estimate_id].user_id = user_id
    THEN Some(estimates[estimate_id]) ELSE NULL

\* float(text.replace('$', '').replace(',', '')); NULL stands for ValueError.
ParseFloat(text) == ParseDecimal(Strip(RemoveChar(RemoveChar(text, "$"), ",")))

EstimateFrequencies == {"weekly", "biweekly", "monthly", "one_time"}

\* The estimate form is rejected (errors is not empty).
EstimateErrors(description, price_per_visit, frequency) ==
    \/ Strip(description) = <<>>
    \/ Strip(price_per_visit) = <<>>
    \/ ParseFloat(Strip(price_per_visit)) = NULL
    \/ Val(ParseFloat(Strip(price_per_visit))) <= 0
    \/ frequency \notin EstimateFrequencies

\* A variant that writes the flag as submitted.
EstimateFields_KeepFlag(description, price_per_visit, frequency, show_monthly_rate) ==
    [description |-> Strip(description),
     price_per_visit |-> Val(ParseFloat(Strip(price_per_visit))),
     frequency |-> frequency,
     show_monthly_rate |-> show_monthly_rate]

\* The columns an estimate form writes.
EstimateFields(description, price_per_visit, frequency, show_monthly_rate) ==
    [description |-> Strip(description),
     price_per_visit |-> Val(ParseFloat(Strip(price_per_visit))),
     frequency |-> frequency,
     show_monthly_rate |-> IF frequency # "one_time" THEN show_monthly_rate ELSE FALSE]

new_estimate(user_id, client_id, description, price_per_visit, frequency, show_monthly_rate) ==
    IF ClientOf(client_id, user_id) = NULL
    THEN CommitEst("new_estimate", estimates, clients, "not_found")
    ELSE IF EstimateErrors(description, price_per_visit, frequency)
    THEN CommitEst("new_estimate", estimates, clients, "invalid")
    ELSE LET f == EstimateFields(description, price_per_visit, frequency, show_monthly_rate)
         IN  CommitEst("new_estimate",
                Append(estimates,
                    [client_id |-> client_id, user_id |-> user_id,
                     description |-> f.description,
                     price_per_visit |-> f.price_per_visit,
                     frequency |-> f.frequency,
                     preferred_day |-> NULL, preferred_time |-> NULL,
                     show_monthly_rate |-> f.show_monthly_rate,
                     status |-> "draft", accept_token |-> NULL, sent_at |-> NULL,
                     accepted_at |-> NULL]),
                clients, "created")

\* update({description, price_per_visit, ...}).eq(id).eq(user_id)
EditWrite(ests, estimate_id, user_id, f) ==
    [e \in 1..Len(ests) |->
        IF e = estimate_id /\ ests[e].user_id = user_id
        THEN [ests[e] EXCEPT !.description = f.description,
                             !.price_per_visit = f.price_per_visit,
                             !.frequency = f.frequency,
                             !.preferred_day = NULL,
                             !.preferred_time = NULL,
                             !.show_monthly_rate = f.show_monthly_rate]
        ELSE ests[e]]

\* What edit_estimate decides from the row it read: the answer it gives
\* without writing, or "write".
EditDecision(found, description, price_per_visit, frequency) ==
    IF found = NULL THEN "not_found"
    ELSE IF Val(found).status \notin {"draft", "sent"} THEN "cannot_edit"
    ELSE IF EstimateErrors(description, price_per_visit, frequency) THEN "invalid"
    ELSE "write"

edit_estimate(user_id, estimate_id, description, price_per_visit, frequency, show_monthly_rate) ==
    LET decision == EditDecision(EstimateOf(estimate_id, user_id), description, price_per_visit, frequency)
    IN  IF decision # "write"
        THEN CommitEst("edit_estimate", estimates, clients, decision)
        ELSE CommitEst("edit_estimate",
                EditWrite(estimates, estimate_id, user_id,
                    EstimateFields(description, price_per_visit, frequency, show_monthly_rate)),
                clients, "updated")

\* secrets.token_urlsafe(32): a value no earlier request drew.
generate_accept_token(now) == Some(now)

\* update({accept_token}).eq(id) when the estimate has none.
WithToken(ests, estimate_id, now) ==
    IF ests[estimate_id].accept_token # NULL THEN ests
    ELSE [ests EXCEPT ![estimate_id].accept_token = generate_accept_token(now)]

\* update({status: sent, sent_at}).eq(id)
MarkSent(ests, estimate_id, now) ==
    [ests EXCEPT ![estimate_id].status = "sent", ![estimate_id].sent_at = Some(now)]

send_estimate(user_id, estimate_id, send_method) ==
    LET found == EstimateOf(estimate_id, user_id)
    IN  IF found = NULL
        THEN CommitEst("send_estimate", estimates, clients, "not_found")
        ELSE LET tokened == WithToken(estimates, estimate_id, clock)
                 client == clients[Val(found).client_id]
             IN  IF send_method = "email" /\ ~TruthyText(client.email)
                 THEN CommitEst("send_estimate", tokened, clients, "no_email")
                 ELSE IF send_method \in {"email", "text"}
                 THEN CommitEst("send_estimate", MarkSent(tokened, estimate_id, clock),
                                clients, "sent")
                 ELSE CommitEst("send_estimate", tokened, clients, "form")

\* update({status: accepted, accepted_at}).eq(id)
MarkAccepted(ests, estimate_id, now) ==
    [e \in 1..Len(ests) |->
        IF e = estimate_id
        THEN [ests[e] EXCEPT !.status = "accepted", !.accepted_at = Some(now)]
        ELSE ests[e]]

\* A variant of the update that forgets the type filter.
ConvertProspect_AnyType(cls, client_id) ==
    [c \in DOMAIN cls |->
        IF c = client_id THEN [cls[c] EXCEPT !.type = "client"] ELSE cls[c]]

\* update({type: client}).eq(id, client_id).eq(type, prospect)
ConvertProspect(cls, client_id) ==
    [c \in DOMAIN cls |->
        IF c = client_id /\ cls[c].type = "prospect"
        THEN [cls[c] EXCEPT !.type = "client"]
        ELSE cls[c]]

\* A variant of the test that never finds the estimate accepted.
AlreadyAccepted_Never(estimate) == FALSE

\* The test both accept routes make before they write.
AlreadyAccepted(estimate) == estimate.status = "accepted"

\* What both accept routes do with the row they found.
AcceptFound(op, estimate_id, estimate) ==
    IF AlreadyAccepted(estimate)
    THEN CommitEst(op, estimates, clients, "already_accepted")
    ELSE CommitEst(op, MarkAccepted(estimates, estimate_id, clock),
                   ConvertProspect(clients, estimate.client_id), "accepted")

accept_estimate(user_id, estimate_id) ==
    LET found == EstimateOf(estimate_id, user_id)
    IN  IF found = NULL
        THEN CommitEst("accept_estimate", estimates, clients, "not_found")
        ELSE AcceptFound("accept_estimate", estimate_id, Val(found))

\* A variant of the lookup that forgets the token filter.
EstimateByToken_AnyToken(estimate_id, token) ==
    IF estimate_id \in 1..Len(estimates) THEN Some(estimates[estimate_id]) ELSE NULL

\* select ... .eq(id).eq(accept_token, token): the row, or NULL.  A row
\* whose accept_token is NULL matches no token.
EstimateByToken(estimate_id, token) ==
    IF /\ estimate_id \in 1..Len(estimates)
       /\ estimates[estimate_id].accept_token # NULL
       /\ estimates[estimate_id].accept_token = Some(token)
    THEN Some(estimates[estimate_id]) ELSE NULL

accept_estimate_page(estimate_id, token) ==
    LET found == EstimateByToken(estimate_id, token)
    IN  IF found = NULL
        THEN CommitEst("accept_estimate_page", estimates, clients, "invalid")
        ELSE IF AlreadyAccepted(Val(found))
        THEN CommitEst("accept_estimate_page", estimates, clients, "already_accepted")
        ELSE CommitEst("accept_estimate_page", estimates, clients, "page")

confirm_accept_estimate(estimate_id, token) ==
    LET found == EstimateByToken(estimate_id, token)
    IN  IF found = NULL
        THEN CommitEst("confirm_accept_estimate", estimates, clients, "invalid")
        ELSE AcceptFound("confirm_accept_estimate", estimate_id, Val(found))

\* ------------------------------------------------------------- clients
\* The client routes.  A client row is kept as its business, its type and
\* its email address; of the required form fields the name stands for all.
\* What a request of a client route does to the store.
CommitClients(op, cls, vs) ==
    IF cls = clients /\ vs = visits
    THEN UNCHANGED vars
    ELSE /\ clock' = clock + 1
         /\ clients' = cls
         /\ visits' = vs
         /\ last' = op
         /\ UNCHANGED <<estimates, invoices, response, pending>>

\* email = request.form.get('email', '').strip() or None
EmailField(text) == IF Strip(text) = <<>> THEN NULL ELSE Some("e")

\* The client form is rejected (errors is not empty).
ClientErrors(name) == Strip(name) = <<>>

\* insert({user_id, ..., type: 'prospect'}): the store gives the row an id
\* no client has.
new_client(user_id, client_id, name, email) ==
    IF ClientErrors(name) \/ client_id \in DOMAIN clients
    THEN UNCHANGED vars
    ELSE CommitClients("new_client",
            [c \in DOMAIN clients \cup {client_id} |->
                IF c = client_id
                THEN [user_id |-> user_id, type |-> "prospect", email |-> EmailField(email)]
                ELSE clients[c]],
            visits)

\* update({..., email, type}).eq(id).eq(user_id)
EditClientWrite(cls, client_id, user_id, email, client_type) ==
    [c \in DOMAIN cls |->
        IF c = client_id /\ cls[c].user_id = user_id
        THEN [cls[c] EXCEPT !.email = email, !.type = client_type]
        ELSE cls[c]]

edit_client(user_id, client_id, name, email, client_type) ==
    IF ClientOf(client_id, user_id) = NULL \/ ClientErrors(name)
    THEN UNCHANGED vars
    ELSE CommitClients("edit_client",
            EditClientWrite(clients, client_id, user_id, EmailField(email), client_type),
            visits)

\* update({type}).eq(id).eq(user_id)
SetType(cls, client_id, user_id, client_type) ==
    [c \in DOMAIN cls |->
        IF c = client_id /\ cls[c].user_id = user_id
        THEN [cls[c] EXCEPT !.type = client_type]
        ELSE cls[c]]

convert_to_client(user_id, client_id) ==
    CommitClients("convert_to_client", SetType(clients, client_id, user_id, "client"), visits)

\* update({status: cancelled}).eq(client_id).eq(user_id).eq(status, scheduled)
\*     .gte(scheduled_date, today)
CancelFutureVisits(vs, client_id, user_id) ==
    [i \in 1..Len(vs) |->
        IF /\ vs[i].client_id = client_id
           /\ vs[i].user_id = user_id
           /\ vs[i].status = "scheduled"
           /\ vs[i].scheduled_date >= Today
        THEN [vs[i] EXCEPT !.status = "cancelled"]
        ELSE vs[i]]

deactivate_client(user_id, client_id, cancel_visits) ==
    CommitClients("deactivate_client",
        SetType(clients, client_id, user_id, "inactive"),
        IF cancel_visits THEN CancelFutureVisits(visits, client_id, user_id) ELSE visits)

\* ----------------------------------------------------------------- views
\* What a request that only reads does: it answers with the rows it read.
Answer(route, outcome, rows) ==
    /\ response' = [route |-> route, outcome |-> outcome, rows |-> rows]
    /\ UNCHANGED <<clients, estimates, visits, invoices, clock, last, pending>>

\* select ... from visits .eq(invoice_id): the rows read.
VisitsOnInvoice(invoice_id) ==
    {<<"visits", i>> : i \in {v \in 1..Len(visits) : visits[v].invoice_id = Some(invoice_id)}}

\* select ... from invoices .eq(public_token, token): the ids of the rows.
InvoicesByToken(token) ==
    {k \in 1..Len(invoices) : invoices[k].public_token = Some(token)}

public_invoice(token) ==
    LET found == InvoicesByToken(token)
    IN  IF found = {}
        THEN Answer("public_invoice", "not_found", {})
        ELSE \E k \in found :
                Answer("public_invoice", "invoice", {<<"invoices", k>>} \cup VisitsOnInvoice(k))

\* .limit(10) of the lists on the client page.
ViewLimit == 10

\* .order(key).limit(n): the n rows that come first (rows with equal keys in
\* the order they were inserted).
Limit(ids, key, n) ==
    {i \in ids : Cardinality({j \in ids : key[j] < key[i] \/ (key[j] = key[i] /\ j < i)}) < n}

\* The client page: the client by id and business, then its estimates, its
\* upcoming and past visits and its invoices, each by client id alone.
view_client(user_id, client_id) ==
    LET ests == {e \in 1..Len(estimates) : estimates[e].client_id = client_id}
        upcoming == {v \in 1..Len(visits) :
                        /\ visits[v].client_id = client_id
                        /\ visits[v].status = "scheduled"
                        /\ visits[v].scheduled_date >= Today}
        past == {v \in 1..Len(visits) :
                        /\ visits[v].client_id = client_id
                        /\ visits[v].status # "scheduled"}
        invs == {k \in 1..Len(invoices) : invoices[k].client_id = client_id}
        shown == Limit(upcoming, [v \in upcoming |-> visits[v].scheduled_date], ViewLimit)
                    \cup Limit(past, [v \in past |-> 0 - visits[v].scheduled_date], ViewLimit)
    IN  IF ClientOf(client_id, user_id) = NULL
        THEN Answer("view_client", "not_found", {})
        ELSE Answer("view_client", "client",
                    {<<"clients", client_id>>}
                        \cup {<<"estimates", e>> : e \in ests}
                        \cup {<<"visits", v>> : v \in shown}
                        \cup {<<"invoices", k>> :
                                k \in Limit(invs, [k \in invs |-> 0 - invoices[k].created_at], ViewLimit)})

\* The invoice page: the invoice by id and business with its client, then the
\* visits by invoice id alone, each with its estimate.
view_invoice(user_id, invoice_id) ==
    IF invoice_id \notin 1..Len(invoices) \/ invoices[invoice_id].user_id # user_id
    THEN Answer("view_invoice", "not_found", {})
    ELSE LET on == {v \in 1..Len(visits) : visits[v].invoice_id = Some(invoice_id)}
         IN  Answer("view_invoice", "invoice",
                    {<<"invoices", invoice_id>>, <<"clients", invoices[invoice_id].client_id>>}
                        \cup VisitsOnInvoice(invoice_id)
                        \cup {<<"estimates", Val(visits[v].estimate_id)>> :
                                v \in {w \in on : visits[w].estimate_id # NULL}})

\* --------------------------------------------------------- initial state
\* The store the behaviours start from: the registered clients (c1 of
\* business u1 with an accepted estimate, c2 of business u2 with none) and
\* what StartClock earlier requests of u1 left: two one-time visits scheduled for
\* c1, a fortnight and a week ago, each completed since.
Registered ==
    [c \in ClientIds |-> [user_id |-> IF c = "c1" THEN "u1" ELSE "u2", type |-> "client",
                          email |-> Some("e")]]
Accepted ==
    << [client_id |-> "c1", user_id |-> "u1", description |-> "d",
        price_per_visit |-> 120, frequency |-> "weekly",
        preferred_day |-> NULL, preferred_time |-> NULL, show_monthly_rate |-> FALSE,
        status |-> "accepted", accept_token |-> NULL, sent_at |-> NULL,
        accepted_at |-> Some(0)] >>
History ==
    LET price == ParsePrice(<<"$", "6", "0">>)
        first == ScheduleRows("c1", "u1", Today - 14, "one_time", "weekly", NULL, price)
        second == ScheduleRows("c1", "u1", Today - 7, "one_time", "weekly", NULL, price)
    IN  MarkComplete(MarkComplete(first \o second, 1, "u1", NULL, 2), 2, "u1", NULL, 3)

Init ==
    /\ clients = Registered
    /\ estimates = Accepted
    /\ visits = History
    /\ invoices = <<>>
    /\ clock = StartClock
    /\ last = "none"
    /\ response = NoResponse
    /\ pending = <<>>

\* ------------------------------------------------------------- the system
Notes == {NULL, Some("n")}
Times == {NULL}
\* Blank, 30 February, a week ago, today.
DateTexts ==
    {<<>>,
     <<"2", "0", "2", "6", "-", "0", "2", "-", "3", "0">>,
     <<"2", "0", "2", "6", "-", "1", "0", "-", "2", "9">>,
     <<"2", "0", "2", "6", "-", "1", "1", "-", "0", "5">>}
ScheduleTypes == {"one_time", "recurring"}
Frequencies == {"weekly", ""}
PriceTexts == {<<>>, <<"$", "6", "0">>, <<"-", "5">>}
VisitIds == 1..Len(visits)
RECURSIVE UpTo(_)
UpTo(k) ==
    IF k = 0 THEN {{}}
    ELSE LET smaller == UpTo(k - 1)
         IN  smaller \cup {S \cup {v} : S \in smaller, v \in VisitIds}
\* The sets of at most MaxSelected visit ids.
Selections == UpTo(MaxSelected)

Next ==
    \/ \E u \in Users, c \in ClientIds, d \in DateTexts, ty \in ScheduleTypes,
          f \in Frequencies, t \in Times, p \in PriceTexts :
            Serving /\ schedule_visits(u, c, d, ty, f, t, p)
    \/ \E u \in Users, v \in VisitIds, n \in Notes :
            Serving /\ complete_visit(u, v, n)
    \/ \E u \in Users, v \in VisitIds, n \in Notes :
            Serving /\ api_complete_visit(u, v, n)
    \/ \E u \in Users, v \in VisitIds :
            Serving /\ cancel_visit(u, v)
    \/ \E u \in Users, v \in VisitIds, d \in DateTexts, t \in Times :
            Serving /\ reschedule_visit(u, v, d, t)
    \/ \E u \in Users, c \in ClientIds, S \in Selections :
            Serving /\ create_invoice(u, c, S)

Spec == Init /\ [][Next]_vars

\* ------------------------------------------------- the estimate lifecycle
\* The estimate routes, served one request at a time, starting from the same
\* store with client c1 of any type, with or without an email address.
ClientTypes == {"prospect", "client", "inactive"}
Emails == {NULL, Some("e")}

InitEst ==
    /\ clients \in {[Registered EXCEPT !["c1"].type = t, !["c1"].email = m] :
                        t \in ClientTypes, m \in Emails}
    /\ estimates = Accepted
    /\ visits = History
    /\ invoices = <<>>
    /\ clock = StartClock
    /\ last = "none"
    /\ response = NoResponse
    /\ pending = <<>>

Descriptions == {<<>>, <<"e">>}
EstimatePriceTexts == {<<"$", "8", "0">>, <<"0">>}
FrequencyTexts == {"weekly", "one_time", "daily"}
Flags == {TRUE}
SendMethods == {"email", "text", ""}
\* An id per estimate, and one that names no estimate.
EstimateIds == 1..(Len(estimates) + 1)
\* The accept tokens in the store, and one that is in no row.
NoToken == 0
TokenTexts == {NoToken} \cup {Val(estimates[e].accept_token) : e \in {x \in 1..Len(estimates) : estimates[x].accept_token # NULL}}
\* The public tokens in the store, and one that is in no row.
InvoiceTokenTexts == {NoToken} \cup {Val(invoices[k].public_token) : k \in 1..Len(invoices)}

NextEst ==
    \/ \E u \in Users, c \in ClientIds, d \in Descriptions, p \in EstimatePriceTexts,
          f \in FrequencyTexts, m \in Flags :
            Serving /\ new_estimate(u, c, d, p, f, m)
    \/ \E u \in Users, e \in EstimateIds, d \in Descriptions, p \in EstimatePriceTexts,
          f \in FrequencyTexts, m \in Flags :
            Serving /\ edit_estimate(u, e, d, p, f, m)
    \/ \E u \in Users, e \in EstimateIds, m \in SendMethods :
            Serving /\ send_estimate(u, e, m)
    \/ \E u \in Users, e \in EstimateIds : Serving /\ accept_estimate(u, e)
    \/ \E e \in EstimateIds, t \in TokenTexts : Serving /\ accept_estimate_page(e, t)
    \/ \E e \in EstimateIds, t \in TokenTexts : Serving /\ confirm_accept_estimate(e, t)
    \/ \E u \in Users, c \in ClientIds, S \in Selections : Serving /\ create_invoice(u, c, S)
    \/ \E t \in InvoiceTokenTexts : Serving /\ public_invoice(t)

SpecEst == InitEst /\ [][NextEst]_vars

\* ------------------------------------------------------ the two businesses
\* Every route of a signed-in business, served one request at a time, from a
\* store in which both businesses hold rows: u1 as before, u2 with prospect
\* c2, a visit to c2 completed a week ago and one scheduled for today.
MaxTenantRequests == 2

ServingTenants == clock < StartClock + MaxTenantRequests

TenantHistory ==
    LET price == ParsePrice(<<"$", "6", "0">>)
        done == ScheduleRows("c2", "u2", Today - 7, "one_time", "weekly", NULL, price)
        due == ScheduleRows("c2", "u2", Today, "one_time", "weekly", NULL, price)
    IN  MarkComplete(History \o done \o due, 3, "u2", NULL, 3)

InitTenants ==
    /\ clients = [Registered EXCEPT !["c2"].type = "prospect"]
    /\ estimates = Accepted
    /\ visits = TenantHistory
    /\ invoices = <<>>
    /\ clock = StartClock
    /\ last = "none"
    /\ response = NoResponse
    /\ pending = <<>>

\* An id per invoice, and one that names no invoice.
InvoiceIds == 1..(Len(invoices) + 1)

NextTenants ==
    \/ \E u \in Users, c \in ClientIds, d \in DateTexts, ty \in ScheduleTypes,
          f \in Frequencies, t \in Times, p \in PriceTexts :
            ServingTenants /\ schedule_visits(u, c, d, ty, f, t, p)
    \/ \E u \in Users, v \in VisitIds, n \in Notes :
            ServingTenants /\ complete_visit(u, v, n)
    \/ \E u \in Users, v \in VisitIds, n \in Notes :
            ServingTenants /\ api_complete_visit(u, v, n)
    \/ \E u \in Users, v \in VisitIds :
            ServingTenants /\ cancel_visit(u, v)
    \/ \E u \in Users, v \in VisitIds, d \in DateTexts, t \in Times :
            ServingTenants /\ reschedule_visit(u, v, d, t)
    \/ \E u \in Users, c \in ClientIds, S \in Selections :
            ServingTenants /\ create_invoice(u, c, S)
    \/ \E u \in Users, c \in ClientIds, d \in Descriptions, p \in EstimatePriceTexts,
          f \in FrequencyTexts, m \in Flags :
            ServingTenants /\ new_estimate(u, c, d, p, f, m)
    \/ \E u \in Users, e \in EstimateIds, d \in Descriptions, p \in EstimatePriceTexts,
          f \in FrequencyTexts, m \in Flags :
            ServingTenants /\ edit_estimate(u, e, d, p, f, m)
    \/ \E u \in Users, e \in EstimateIds, m \in SendMethods :
            ServingTenants /\ send_estimate(u, e, m)
    \/ \E u \in Users, e \in EstimateIds : ServingTenants /\ accept_estimate(u, e)
    \/ \E u \in Users, c \in ClientIds : ServingTenants /\ view_client(u, c)
    \/ \E u \in Users, k \in InvoiceIds : ServingTenants /\ view_invoice(u, k)

SpecTenants == InitTenants /\ [][NextTenants]_vars

\* ------------------------------------------------- requests in flight
\* The handlers again, one store call per step, so that the calls of two
\* requests interleave.  pending[p] holds what request p has read so far and
\* pc, the store call it makes next.

\* A store call of request p: the tables after it and what p knows after it.
RaceCommit(p, request, cls, ests, vs, invs) ==
    /\ Len(vs) <= MaxVisits
    /\ pending' = IF p > Len(pending) THEN Append(pending, request)
                  ELSE [pending EXCEPT ![p] = request]
    /\ clients' = cls
    /\ estimates' = ests
    /\ visits' = vs
    /\ invoices' = invs
    /\ IF cls = clients /\ ests = estimates /\ vs = visits /\ invs = invoices
       THEN UNCHANGED <<clock, last>>
       ELSE clock' = clock + 1 /\ last' = request.route
    /\ UNCHANGED response

\* A request can start.
CanStart == Len(pending) < MaxInFlight

\* Request p is in flight on the route and makes the store call pc next.
At(p, route, pc) ==
    p \in 1..Len(pending) /\ pending[p].route = route /\ pending[p].pc = pc

\* create_invoice: the client lookup.
start_create_invoice(user_id, client_id, selected_visit_ids) ==
    /\ CanStart
    /\ ClientOf(client_id, user_id) # NULL
    /\ selected_visit_ids # {}
    /\ RaceCommit(Len(pending) + 1,
            [route |-> "create_invoice", pc |-> "visits", user_id |-> user_id,
             client_id |-> client_id, selected_visit_ids |-> selected_visit_ids,
             selected_visits |-> {}, subtotal |-> 0, invoice_number |-> <<>>,
             latest |-> NULL, invoice_id |-> 0],
            clients, estimates, visits, invoices)

\* create_invoice: the store calls after the client lookup, in order: the
\* available visits, the latest invoice number, the insert, the link update.
step_create_invoice(p) ==
    LET r == pending[p]
    IN  \/ /\ At(p, "create_invoice", "visits")
           /\ LET selected_visits ==
                    AvailableVisits(visits, r.user_id, r.client_id) \cap r.selected_visit_ids
              IN  RaceCommit(p,
                     [r EXCEPT !.selected_visits = selected_visits,
                               !.subtotal = SumPrices(visits, selected_visits),
                               !.pc = IF selected_visits = {} THEN "done" ELSE "number"],
                     clients, estimates, visits, invoices)
        \/ /\ At(p, "create_invoice", "number")
           /\ RaceCommit(p,
                 [r EXCEPT !.invoice_number = generate_invoice_number(invoices, r.user_id),
                           !.latest = LatestInvoice(invoices, r.user_id),
                           !.pc = "insert"],
                 clients, estimates, visits, invoices)
        \/ /\ At(p, "create_invoice", "insert")
           /\ RaceCommit(p, [r EXCEPT !.invoice_id = Len(invoices) + 1, !.pc = "link"],
                 clients, estimates, visits,
                 Append(invoices,
                    [client_id |-> r.client_id, user_id |-> r.user_id,
                     invoice_number |-> r.invoice_number,
                     subtotal |-> r.subtotal, total |-> r.subtotal, status |-> "draft",
                     public_token |-> generate_public_token(clock),
                     created_at |-> clock, sent_at |-> NULL, paid_at |-> NULL]))
        \/ /\ At(p, "create_invoice", "link")
           /\ RaceCommit(p, [r EXCEPT !.pc = "done"], clients, estimates,
                 LinkVisits(visits, r.selected_visit_ids, r.user_id, r.invoice_id),
                 invoices)

\* complete_visit: the visit lookup.
start_complete_visit(user_id, visit_id, notes) ==
    /\ CanStart
    /\ VisitOf(visit_id, user_id) # NULL
    /\ RaceCommit(Len(pending) + 1,
            [route |-> "complete_visit", pc |-> "update", user_id |-> user_id,
             visit_id |-> visit_id, notes |-> notes, visit |-> visits[visit_id],
             seen |-> {}, rows |-> <<>>, first |-> 0],
            clients, estimates, visits, invoices)

\* complete_visit: the store calls after the lookup, in order: the update,
\* then for a recurring visit the count of future visits and the insert.
step_complete_visit(p) ==
    LET r == pending[p]
    IN  \/ /\ At(p, "complete_visit", "update")
           /\ RaceCommit(p,
                 [r EXCEPT !.pc = IF TriggersWindow(r.visit) THEN "count" ELSE "done"],
                 clients, estimates,
                 MarkComplete(visits, r.visit_id, r.user_id, r.notes, clock), invoices)
        \/ /\ At(p, "complete_visit", "count")
           /\ LET future == FutureVisits(visits, r.user_id, r.visit.client_id)
              IN  \E top \in (IF future = {} THEN {0} ELSE TopRows(visits, future)) :
                    LET rows == WindowRows(visits, r.user_id, r.visit.client_id,
                                    r.visit.estimate_id, Val(r.visit.recurring_frequency),
                                    r.visit.price, top)
                    IN  RaceCommit(p,
                           [r EXCEPT !.seen = future, !.rows = rows,
                                     !.pc = IF rows = <<>> THEN "done" ELSE "insert"],
                           clients, estimates, visits, invoices)
        \/ /\ At(p, "complete_visit", "insert")
           /\ RaceCommit(p, [r EXCEPT !.first = Len(visits) + 1, !.pc = "done"],
                 clients, estimates, visits \o r.rows, invoices)

\* edit_estimate: the lookup, the status test and the validation.
start_edit_estimate(user_id, estimate_id, description, price_per_visit, frequency, show_monthly_rate) ==
    /\ CanStart
    /\ EditDecision(EstimateOf(estimate_id, user_id), description, price_per_visit, frequency) = "write"
    /\ RaceCommit(Len(pending) + 1,
            [route |-> "edit_estimate", pc |-> "update", user_id |-> user_id,
             estimate_id |-> estimate_id,
             fields |-> EstimateFields(description, price_per_visit, frequency, show_monthly_rate)],
            clients, estimates, visits, invoices)

\* edit_estimate: the update.
step_edit_estimate(p) ==
    /\ At(p, "edit_estimate", "update")
    /\ RaceCommit(p, [pending[p] EXCEPT !.pc = "done"], clients,
            EditWrite(estimates, pending[p].estimate_id, pending[p].user_id, pending[p].fields),
            visits, invoices)

\* accept_estimate: the lookup and the status test.
start_accept_estimate(user_id, estimate_id) ==
    /\ CanStart
    /\ EstimateOf(estimate_id, user_id) # NULL
    /\ ~AlreadyAccepted(estimates[estimate_id])
    /\ RaceCommit(Len(pending) + 1,
            [route |-> "accept_estimate", pc |-> "update", user_id |-> user_id,
             estimate_id |-> estimate_id, client_id |-> estimates[estimate_id].client_id],
            clients, estimates, visits, invoices)

\* accept_estimate: the two updates, in order.
step_accept_estimate(p) ==
    LET r == pending[p]
    IN  \/ /\ At(p, "accept_estimate", "update")
           /\ RaceCommit(p, [r EXCEPT !.pc = "convert"], clients,
                 MarkAccepted(estimates, r.estimate_id, clock), visits, invoices)
        \/ /\ At(p, "accept_estimate", "convert")
           /\ RaceCommit(p, [r EXCEPT !.pc = "done"],
                 ConvertProspect(clients, r.client_id), estimates, visits, invoices)

\* The store the requests in flight start from: client c1, a prospect, has
\* its accepted estimate and a draft, one completed visit not yet invoiced
\* and a weekly schedule of 8 visits from today.
Drafted ==
    [Accepted[1] EXCEPT !.description = <<"e">>, !.price_per_visit = 80,
                        !.status = "draft", !.accepted_at = NULL]

RaceHistory ==
    SubSeq(History, 1, 1)
        \o ScheduleRows("c1", "u1", Today, "recurring", "weekly", NULL, ParsePrice(<<"$", "6", "0">>))

InitRace ==
    /\ clients = [Registered EXCEPT !["c1"].type = "prospect"]
    /\ estimates = Append(Accepted, Drafted)
    /\ visits = RaceHistory
    /\ invoices = <<>>
    /\ clock = StartClock
    /\ last = "none"
    /\ response = NoResponse
    /\ pending = <<>>

Slots == 1..MaxInFlight

NextRace ==
    \/ \E u \in Users, c \in ClientIds, S \in Selections : start_create_invoice(u, c, S)
    \/ \E p \in Slots : step_create_invoice(p)
    \/ \E u \in Users, v \in VisitIds, n \in Notes : start_complete_visit(u, v, n)
    \/ \E p \in Slots : step_complete_visit(p)
    \/ \E u \in Users, e \in EstimateIds, d \in Descriptions, q \in EstimatePriceTexts,
          f \in FrequencyTexts, m \in Flags :
            start_edit_estimate(u, e, d, q, f, m)
    \/ \E p \in Slots : step_edit_estimate(p)
    \/ \E u \in Users, e \in EstimateIds : start_accept_estimate(u, e)
    \/ \E p \in Slots : step_accept_estimate(p)

SpecRace == InitRace /\ [][NextRace]_vars

\* ------------------------------------------------------- the client routes
\* The requests that write a client's type, served one at a time: c1 of any
\* type with a draft estimate beside the accepted one and a visit due today.
NewClientIds == {"c3"}
AnyClientIds == ClientIds \cup NewClientIds
Names == {<<>>, <<"n">>}
EmailTexts == {<<>>, <<"e">>}
\* What the type field of the edit form can carry.
SubmittedTypes == {"prospect", "client", "inactive", "vip"}

ClientHistory ==
    History \o ScheduleRows("c1", "u1", Today, "one_time", "weekly", NULL, ParsePrice(<<"$", "6", "0">>))

InitClients ==
    /\ clients \in {[Registered EXCEPT !["c1"].type = t] : t \in ClientTypes}
    /\ estimates = Append(Accepted, Drafted)
    /\ visits = ClientHistory
    /\ invoices = <<>>
    /\ clock = StartClock
    /\ last = "none"
    /\ response = NoResponse
    /\ pending = <<>>

NextClients ==
    \/ \E u \in Users, c \in AnyClientIds, n \in Names, m \in EmailTexts :
            Serving /\ new_client(u, c, n, m)
    \/ \E u \in Users, c \in AnyClientIds, n \in Names, m \in EmailTexts, t \in SubmittedTypes :
            Serving /\ edit_client(u, c, n, m, t)
    \/ \E u \in Users, c \in AnyClientIds : Serving /\ convert_to_client(u, c)
    \/ \E u \in Users, c \in AnyClientIds, x \in BOOLEAN :
            Serving /\ deactivate_client(u, c, x)
    \/ \E u \in Users, e \in EstimateIds : Serving /\ accept_estimate(u, e)
    \/ \E e \in EstimateIds, t \in TokenTexts : Serving /\ confirm_accept_estimate(e, t)

SpecClients == InitClients /\ [][NextClients]_vars

\* ------------------------------------------------------ the invoice routes
\* Creating, sending and paying invoices, one request at a time, from a store
\* that already holds up to two invoices created earlier, in either order,
\* under numbers of any shape.
MaxInvoiceRequests == 2

ServingInvoices == clock < StartClock + MaxInvoiceRequests

\* INV-0037, INV-9999, INV-X, no number, 0042 (no dash) and INV- alone.
NumberTexts ==
    {InvPrefix \o <<"0", "0", "3", "7">>,
     InvPrefix \o <<"9", "9", "9", "9">>,
     InvPrefix \o <<"X">>,
     <<>>,
     <<"0", "0", "4", "2">>,
     InvPrefix}

\* An invoice row created at time now, before the model starts.
PriorInvoice(user_id, invoice_number, now) ==
    [client_id |-> IF user_id = "u1" THEN "c1" ELSE "c2", user_id |-> user_id,
     invoice_number |-> invoice_number, subtotal |-> 60, total |-> 60,
     status |-> "draft", public_token |-> generate_public_token(now),
     created_at |-> now, sent_at |-> NULL, paid_at |-> NULL]

PriorTables ==
    {<<>>}
        \cup {<<PriorInvoice(u, n, 1)>> : u \in Users, n \in NumberTexts}
        \cup {<<PriorInvoice(u[1], n[1], t), PriorInvoice(u[2], n[2], 3 - t)>> :
                u \in Users \X Users, n \in NumberTexts \X NumberTexts, t \in {1, 2}}

InitInvoices ==
    /\ clients \in {[Registered EXCEPT !["c1"].email = m] : m \in Emails}
    /\ estimates = Accepted
    /\ visits = History
    /\ invoices \in PriorTables
    /\ clock = StartClock
    /\ last = "none"
    /\ response = NoResponse
    /\ pending = <<>>

NextInvoices ==
    \/ \E u \in Users, c \in ClientIds, S \in Selections :
            ServingInvoices /\ create_invoice(u, c, S)
    \/ \E u \in Users, k \in InvoiceIds, m \in SendMethods :
            ServingInvoices /\ send_invoice(u, k, m)
    \/ \E u \in Users, k \in InvoiceIds : ServingInvoices /\ mark_paid(u, k)

SpecInvoices == InitInvoices /\ [][NextInvoices]_vars

\* ------------------------------------------------------ the rolling window
\* Scheduling, completing (with store failures), cancelling and moving
\* visits, one request at a time.  Client c1 starts with nothing scheduled or
\* with the two visits left of a recurring schedule, the first due today, each
\* with or without a price, under a frequency the schedule form let through.
MaxWindowRequests == 2

ServingWindow == clock < StartClock + MaxWindowRequests

\* weekly, and a value get_interval_days does not know.
WindowFrequencies == {"weekly", "daily"}
WindowPrices == {NULL, Some(60)}
\* A week ago, today.
WindowDateTexts ==
    {<<"2", "0", "2", "6", "-", "1", "0", "-", "2", "9">>,
     <<"2", "0", "2", "6", "-", "1", "1", "-", "0", "5">>}
WindowPriceTexts == {<<"$", "8", "0">>}
WindowNotes == {Some("n")}
Failures == StoreCalls \cup {"none"}

\* The two visits left of a recurring schedule.
WindowSeed(frequency, first_price, second_price) ==
    LET rows == ScheduleRows("c1", "u1", Today, "recurring", frequency, NULL, first_price)
    IN  << rows[1], [rows[2] EXCEPT !.price = second_price] >>

InitWindow ==
    /\ clients = Registered
    /\ estimates = Accepted
    /\ visits \in {<<>>} \cup {WindowSeed(f, p, q) :
                        f \in WindowFrequencies, p \in WindowPrices, q \in WindowPrices}
    /\ invoices = <<>>
    /\ clock = StartClock
    /\ last = "none"
    /\ response = NoResponse
    /\ pending = <<>>

NextWindow ==
    \/ \E u \in Users, c \in ClientIds, d \in WindowDateTexts, ty \in ScheduleTypes,
          f \in WindowFrequencies, t \in Times, p \in WindowPriceTexts :
            ServingWindow /\ schedule_visits(u, c, d, ty, f, t, p)
    \/ \E u \in Users, v \in VisitIds, n \in WindowNotes, x \in Failures :
            ServingWindow /\ complete_visit_try(u, v, n, x)
    \/ \E u \in Users, v \in VisitIds :
            ServingWindow /\ cancel_visit(u, v)
    \/ \E u \in Users, v \in VisitIds, d \in WindowDateTexts, t \in Times :
            ServingWindow /\ reschedule_visit(u, v, d, t)

SpecWindow == InitWindow /\ [][NextWindow]_vars

\* ---------------------------------------------------------------- claims
\* The client's visits with status=scheduled, recurrence flag true and
\* scheduled_date >= today, counted.
FutureCount(vs, client_id) ==
    Cardinality({i \in 1..Len(vs) :
        /\ vs[i].client_id = client_id
        /\ vs[i].status = "scheduled"
        /\ vs[i].is_recurring
        /\ vs[i].scheduled_date >= Today})

HasRecurring(client_id) ==
    \E i \in VisitIds : visits[i].client_id = client_id /\ visits[i].is_recurring

\* The visit the last request completed (its write carries the last clock value).
JustCompleted(i) ==
    /\ last \in {"complete_visit", "api_complete_visit"}
    /\ visits[i].status = "completed"
    /\ visits[i].completed_at = Some(clock - 1)

\* The step is a write made by one of the named routes.
WrittenBy(ops) == last' \in ops /\ clock' = clock + 1

\* The visit's recurrence flag is true and it carries a frequency.
Recurs(visit) ==
    /\ visit.is_recurring
    /\ visit.recurring_frequency # NULL
    /\ visit.recurring_frequency # Some("")

C2_ScheduleRows ==
    [][WrittenBy({"schedule_visits"}) => \A u \in Users, c \in ClientIds, d \in DateTexts, ty \in ScheduleTypes,
          f \in Frequencies, t \in Times, p \in PriceTexts :
        (schedule_visits(u, c, d, ty, f, t, p) /\ visits' # visits) =>
            LET n == Len(visits)
                new(i) == visits'[n + i]
            IN  /\ SubSeq(visits', 1, n) = visits
                /\ IF ty = "one_time"
                   THEN /\ Len(visits') = n + 1
                        /\ new(1).scheduled_date = Val(ParseDate(d))
                        /\ ~new(1).is_recurring
                        /\ new(1).status = "scheduled"
                   ELSE /\ Len(visits') = n + 8
                        /\ \A i \in 1..8 :
                            /\ new(i).scheduled_date
                                  = Val(ParseDate(d)) + (i - 1) * get_interval_days(f)
                            /\ new(i).status = "scheduled"
                            /\ new(i).is_recurring
                            /\ new(i).recurring_frequency = Some(f)
                            /\ new(i).price = new(1).price
                        /\ \A i \in 1..7 :
                            new(i).scheduled_date < new(i + 1).scheduled_date
    ]_vars

\* C3 as stated: completing (form route) a recurring visit with a frequency
\* leaves its client with exactly 8 future scheduled recurring visits when the
\* client had fewer than 8, and creates no visit when the client had 8 or more.
C3_ExactlyEightOrNothing ==
    [][WrittenBy({"complete_visit"}) => \A u \in Users, v \in VisitIds, n \in Notes :
        (complete_visit(u, v, n) /\ visits[v].user_id = u /\ Recurs(visits[v])) =>
            LET c == visits[v].client_id
            IN  /\ FutureCount(visits, c) < 8 => FutureCount(visits', c) = 8
                /\ FutureCount(visits, c) >= 8 => Len(visits') = Len(visits)
    ]_vars

\* The client's future scheduled recurring visits other than visit v, counted.
FutureCountBeside(vs, client_id, v) ==
    FutureCount(vs, client_id)
        - (IF /\ vs[v].client_id = client_id /\ vs[v].status = "scheduled"
              /\ vs[v].is_recurring /\ vs[v].scheduled_date >= Today
           THEN 1 ELSE 0)

\* C3 amended: completing (form route) a recurring visit with a frequency
\* leaves its client with exactly 8 future scheduled recurring visits when the
\* client had fewer than 8, and creates no visit when the client has 8 or more
\* of them besides the visit being completed.
C3_ExactlyEightOrNothingBeside ==
    [][WrittenBy({"complete_visit"}) => \A u \in Users, v \in VisitIds, n \in Notes :
        (complete_visit(u, v, n) /\ visits[v].user_id = u /\ Recurs(visits[v])) =>
            LET c == visits[v].client_id
            IN  /\ FutureCount(visits, c) < 8 => FutureCount(visits', c) = 8
                /\ FutureCountBeside(visits, c, v) >= 8 => Len(visits') = Len(visits)
    ]_vars

\* C3 witness: a client with a cancelled recurring visit (so fewer than 8
\* future ones) had another completed through the form route and has 8 again,
\* two of them appended by that request.
C3_Witness ==
    \E i, j \in VisitIds :
        /\ last = "complete_visit" /\ JustCompleted(i) /\ Recurs(visits[i])
        /\ j # i /\ visits[j].client_id = visits[i].client_id
        /\ visits[j].is_recurring /\ visits[j].status = "cancelled"
        /\ FutureCount(visits, visits[i].client_id) = 8
        /\ Len(visits) = Len(History) + 8 + 2

\* The second case of C3: a completion that found 8 future visits besides its
\* own and appended nothing (the visit completed is past, the 8 are all there).
C3_WitnessNothing ==
    \E i \in VisitIds :
        /\ last = "complete_visit" /\ JustCompleted(i) /\ Recurs(visits[i])
        /\ visits[i].scheduled_date < Today
        /\ FutureCount(visits, visits[i].client_id) = 8
        /\ Len(visits) = Len(History) + 8 + 1

\* The table differs from the earlier one at most in visit v's status, notes
\* and completion timestamp.
OnlyCompletionOf(v, before, after) ==
    /\ Len(after) = Len(before)
    /\ \A i \in 1..Len(before) : i # v => after[i] = before[i]
    /\ after[v] = [before[v] EXCEPT !.status = after[v].status,
                                    !.completion_notes = after[v].completion_notes,
                                    !.completed_at = after[v].completed_at]

\* C4: completing (either route) a visit whose recurrence flag is false, or
\* which carries no frequency, creates no visit: the table changes at most in
\* that visit's status, notes and completion timestamp.
C4_OneTimeCompletionCreatesNothing ==
    [][WrittenBy({"complete_visit", "api_complete_visit"}) => \A u \in Users, v \in VisitIds, n \in Notes :
        ((complete_visit(u, v, n) \/ api_complete_visit(u, v, n)) /\ ~Recurs(visits[v]))
            => OnlyCompletionOf(v, visits, visits')
    ]_vars

\* C4 witness: a recurring-flagged visit without a frequency, scheduled by a
\* request of the behaviour, was just completed through the form route.
C4_Witness ==
    \E i \in VisitIds :
        /\ i > Len(History)
        /\ last = "complete_visit" /\ JustCompleted(i)
        /\ visits[i].is_recurring /\ ~Recurs(visits[i])

\* C5: cancelling a scheduled visit sets that visit's status to cancelled and
\* changes nothing else: no other field, no other visit, no new visit.
C5_CancelChangesOnlyStatus ==
    [][WrittenBy({"cancel_visit"}) => \A u \in Users, v \in VisitIds :
        (cancel_visit(u, v) /\ visits[v].status = "scheduled" /\ visits[v].user_id = u)
            => /\ visits' = [visits EXCEPT ![v].status = "cancelled"]
               /\ invoices' = invoices
    ]_vars

\* C5 witness: a recurring visit was just cancelled, leaving its client with
\* fewer than 8 future visits.
C5_Witness ==
    \E i \in VisitIds :
        /\ last = "cancel_visit"
        /\ visits[i].status = "cancelled" /\ visits[i].is_recurring
        /\ FutureCount(visits, visits[i].client_id) < 8

\* The price text names a strictly positive amount.
PositivePrice(price_str) ==
    ParsePrice(price_str) # NULL /\ Val(ParsePrice(price_str)) > 0

\* C6 as stated: create schedule persists nothing when the start date is no
\* calendar date or the price is missing, unparseable, zero or negative, and
\* every visit it persists has a strictly positive price.
C6_RejectsBadForms ==
    [][WrittenBy({"schedule_visits"}) => \A u \in Users, c \in ClientIds, d \in DateTexts, ty \in ScheduleTypes,
          f \in Frequencies, t \in Times, p \in PriceTexts :
        schedule_visits(u, c, d, ty, f, t, p) =>
            /\ (ParseDate(d) = NULL \/ ~PositivePrice(p)) => visits' = visits
            /\ \A i \in (Len(visits) + 1)..Len(visits') :
                    visits'[i].price # NULL /\ Val(visits'[i].price) > 0
    ]_vars

\* C7 as stated: create invoice sets the invoice link only of visits that are
\* completed, not yet linked, and belong to the invoiced client.
C7_LinksOnlyEligible ==
    [][WrittenBy({"create_invoice"}) => \A u \in Users, c \in ClientIds, S \in Selections :
        create_invoice(u, c, S) =>
            \A i \in VisitIds :
                visits'[i].invoice_id # visits[i].invoice_id =>
                    /\ visits[i].status = "completed"
                    /\ visits[i].invoice_id = NULL
                    /\ visits[i].client_id = c
    ]_vars

\* C8 as stated: once a visit's invoice_id is set no request changes it.
C8_LinkSetOnce ==
    [][\A i \in VisitIds :
        visits[i].invoice_id # NULL => visits'[i].invoice_id = visits[i].invoice_id
    ]_vars

\* The visits linked to invoice k.
LinkedTo(k) == {i \in VisitIds : visits[i].invoice_id = Some(k)}

\* C9 as stated: every invoice's subtotal and total equal the sum of the
\* prices of the visits linked to it.
C9_TotalsMatchLinkedVisits ==
    \A k \in 1..Len(invoices) :
        /\ invoices[k].subtotal = SumPrices(visits, LinkedTo(k))
        /\ invoices[k].total = SumPrices(visits, LinkedTo(k))

\* The integer an invoice number ends with.
NumberOf(invoice) == Val(ParseInt(SplitDash(invoice.invoice_number)[2]))

\* C10: with requests served one at a time, the invoices of one business carry
\* distinct numbers, each greater than those of the business's earlier invoices.
C10_NumbersIncreasePerBusiness ==
    \A i, j \in 1..Len(invoices) :
        (i < j /\ invoices[i].user_id = invoices[j].user_id) =>
            /\ invoices[i].invoice_number # invoices[j].invoice_number
            /\ NumberOf(invoices[i]) < NumberOf(invoices[j])

\* C10 witness: a business has two invoices, INV-0001 and INV-0002.
C10_Witness ==
    \E i, j \in 1..Len(invoices) :
        /\ i < j /\ invoices[i].user_id = invoices[j].user_id
        /\ invoices[i].invoice_number = InvPrefix \o <<"0", "0", "0", "1">>
        /\ invoices[j].invoice_number = InvPrefix \o <<"0", "0", "0", "2">>

\* The place of a status on the path draft -> sent -> accepted.
Rank(status) == IF status = "draft" THEN 1 ELSE IF status = "sent" THEN 2 ELSE 3

\* C13 as stated: no request moves an estimate's status backwards along
\* draft -> sent -> accepted.
C13_StatusNeverMovesBack ==
    [][\A e \in 1..Len(estimates) :
        Rank(estimates'[e].status) >= Rank(estimates[e].status)]_vars

\* The step is a request of one of the named routes answering.
AnsweredBy(routes) == response'.route \in routes

\* The store is what it was.
StoreUnchanged == UNCHANGED <<clients, estimates, visits, invoices>>

\* C15: accepting, as owner or through the public link with its token, an
\* estimate that is already accepted leaves every estimate (status and
\* accepted-at included) and every client as they were, and answers "already
\* accepted", which is no error.
C15_ReacceptChangesNothing ==
    [][AnsweredBy({"accept_estimate", "confirm_accept_estimate"}) =>
        /\ \A u \in Users, e \in EstimateIds :
            (/\ accept_estimate(u, e)
             /\ EstimateOf(e, u) # NULL
             /\ estimates[e].status = "accepted")
                => StoreUnchanged /\ response'.outcome = "already_accepted"
        /\ \A e \in EstimateIds, t \in TokenTexts :
            (/\ confirm_accept_estimate(e, t)
             /\ e <= Len(estimates)
             /\ estimates[e].accept_token = Some(t)
             /\ estimates[e].status = "accepted")
                => StoreUnchanged /\ response'.outcome = "already_accepted"
    ]_vars

\* C15 witness: the estimate accepted before the behaviour began carries a
\* token, was accepted again through the public link, and still has the
\* accepted-at it had.
C15_Witness ==
    /\ response.route = "confirm_accept_estimate"
    /\ response.outcome = "already_accepted"
    /\ estimates[1].status = "accepted"
    /\ estimates[1].accept_token # NULL
    /\ estimates[1].accepted_at = Accepted[1].accepted_at
    /\ Len(estimates) = 1

\* The clients table after an acceptance that reached client_id.
TypeAfterAccept(client_id) ==
    [clients EXCEPT ![client_id].type = IF @ = "prospect" THEN "client" ELSE @]

\* C16: accepting, as owner or through the public link, an estimate that is
\* not accepted yet turns its client into type client exactly when the client
\* is a prospect; a client of type client or inactive keeps its type, and no
\* other client changes.
C16_OnlyProspectsConvert ==
    [][AnsweredBy({"accept_estimate", "confirm_accept_estimate"}) =>
        /\ \A u \in Users, e \in EstimateIds :
            (/\ accept_estimate(u, e)
             /\ EstimateOf(e, u) # NULL
             /\ estimates[e].status # "accepted")
                => /\ estimates'[e].status = "accepted"
                   /\ clients' = TypeAfterAccept(estimates[e].client_id)
        /\ \A e \in EstimateIds, t \in TokenTexts :
            (/\ confirm_accept_estimate(e, t)
             /\ e <= Len(estimates)
             /\ estimates[e].accept_token = Some(t)
             /\ estimates[e].status # "accepted")
                => /\ estimates'[e].status = "accepted"
                   /\ clients' = TypeAfterAccept(estimates[e].client_id)
    ]_vars

\* C16 witness: an estimate of an inactive client was just accepted and the
\* client is still inactive.
C16_Witness ==
    \E e \in 1..Len(estimates) :
        /\ response.route \in {"accept_estimate", "confirm_accept_estimate"}
        /\ response.outcome = "accepted"
        /\ estimates[e].accepted_at = Some(clock - 1)
        /\ clients[estimates[e].client_id].type = "inactive"

\* C18: on the public routes a token that is not the stored token of the
\* addressed estimate (of any invoice, for the invoice view) gets the answer
\* an id or token of no row gets, and the store stays as it was; an estimate
\* without a token is accepted through the public route by no token.
C18_WrongTokenIsNotFound ==
    [][AnsweredBy({"accept_estimate_page", "confirm_accept_estimate", "public_invoice"}) =>
        /\ \A e \in EstimateIds, t \in TokenTexts :
            (/\ accept_estimate_page(e, t) \/ confirm_accept_estimate(e, t)
             /\ (e > Len(estimates) \/ estimates[e].accept_token # Some(t)))
                => StoreUnchanged /\ response'.outcome = "invalid"
        /\ \A t \in InvoiceTokenTexts :
            (/\ public_invoice(t)
             /\ \A k \in 1..Len(invoices) : invoices[k].public_token # Some(t))
                => StoreUnchanged /\ response'.outcome = "not_found" /\ response'.rows = {}
    ]_vars

\* C18 witness: the store holds a sent estimate with a token and a draft
\* without one, none of them accepted since, and a public acceptance was just
\* answered "invalid".
C18_Witness ==
    /\ response.route = "confirm_accept_estimate"
    /\ response.outcome = "invalid"
    /\ Len(estimates) = 2
    /\ estimates[1].accept_token # NULL
    /\ estimates[2].accept_token = NULL /\ estimates[2].status = "draft"

\* C19 as stated: a complete-visit request (either route) on a visit whose
\* status is cancelled or completed changes nothing: not the visit's status,
\* timestamp or notes, and no visit is created.
C19_OnlyScheduledVisitsComplete ==
    [][WrittenBy({"complete_visit", "api_complete_visit"}) =>
        \A u \in Users, v \in VisitIds, n \in Notes :
            (/\ complete_visit(u, v, n) \/ api_complete_visit(u, v, n)
             /\ visits[v].status \in {"cancelled", "completed"})
                => visits' = visits
    ]_vars

\* The step left the visits table as replenishment for the visit's client
\* leaves it, run on the table in which the visit is marked completed.
ReplenishedAfter(done, visit) ==
    LET future == FutureVisits(done, visit.user_id, visit.client_id)
    IN  \E top \in (IF future = {} THEN {0} ELSE TopRows(done, future)) :
            visits' = maintain_rolling_window(done, visit.user_id, visit.client_id,
                            visit.estimate_id, Val(visit.recurring_frequency),
                            visit.price, top)

\* C20 as stated: a completion through either route runs replenishment for
\* the visit's client within the request when the visit's recurrence flag is
\* true and it carries a frequency, and only marks the visit otherwise.
C20_EveryRouteReplenishes ==
    [][WrittenBy({"complete_visit", "api_complete_visit"}) =>
        \A u \in Users, v \in VisitIds, n \in Notes :
            (/\ complete_visit(u, v, n) \/ api_complete_visit(u, v, n)
             /\ visits[v].user_id = u)
                => LET done == MarkComplete(visits, v, u, n, clock)
                   IN  IF Recurs(visits[v])
                       THEN ReplenishedAfter(done, visits[v])
                       ELSE visits' = done
    ]_vars

\* C11: two create-invoice requests of one business in flight together can
\* both read the same last invoice number, so two invoices of one business
\* with the same number are reachable (C11_Witness); and that is the only way
\* they arise: of two such invoices, the later was numbered by a request that
\* read the last number before the earlier was inserted.
C11_DuplicateNumbersComeFromStaleReads ==
    \A i, j \in 1..Len(invoices) :
        (/\ i < j
         /\ invoices[i].user_id = invoices[j].user_id
         /\ invoices[i].invoice_number = invoices[j].invoice_number)
            => \E p \in 1..Len(pending) :
                /\ pending[p].route = "create_invoice"
                /\ pending[p].invoice_id = j
                /\ (pending[p].latest = NULL \/ Val(pending[p].latest) < i)

\* C11 witness: two invoices of one business carry the same number.
C11_Witness ==
    \E i, j \in 1..Len(invoices) :
        /\ i < j
        /\ invoices[i].user_id = invoices[j].user_id
        /\ invoices[i].invoice_number = invoices[j].invoice_number

\* Request p is a completion that inserted replenishment rows.
Replenisher(p) ==
    p \in 1..Len(pending) /\ pending[p].route = "complete_visit" /\ pending[p].first > 0

\* C12: two complete-visit requests on recurring visits of one client in
\* flight together can both count the future visits before either inserts,
\* so a client with more than 8 future scheduled recurring visits, two of them
\* on one date, is reachable (C12_Witness); and that is the only way the
\* window is over-shot: the later of two inserting requests counted the
\* future visits before the earlier one inserted.
C12_OvershootComesFromStaleCounts ==
    \A c \in ClientIds :
        FutureCount(visits, c) > 8 =>
            \E p, q \in 1..Len(pending) :
                /\ Replenisher(p) /\ Replenisher(q)
                /\ pending[p].visit.client_id = c /\ pending[q].visit.client_id = c
                /\ pending[p].first < pending[q].first
                /\ pending[p].first \notin pending[q].seen

\* C12 witness: the client has more than 8 future scheduled recurring visits
\* and replenishment created two of them on the same date.
C12_Witness ==
    /\ FutureCount(visits, "c1") > 8
    /\ \E i, j \in (Len(RaceHistory) + 1)..Len(visits) :
        /\ i < j
        /\ visits[i].client_id = "c1" /\ visits[j].client_id = "c1"
        /\ visits[i].status = "scheduled" /\ visits[j].status = "scheduled"
        /\ visits[i].is_recurring /\ visits[j].is_recurring
        /\ visits[i].scheduled_date = visits[j].scheduled_date
        /\ visits[i].scheduled_date >= Today

\* The columns of an estimate an edit writes.
Terms(estimate) ==
    <<estimate.description, estimate.price_per_visit, estimate.frequency,
      estimate.preferred_day, estimate.preferred_time, estimate.show_monthly_rate>>

\* C14 as stated: no step changes the description, price, frequency,
\* preferred day or time, or monthly-rate flag of an estimate whose status is
\* accepted, an edit that read the estimate before an acceptance included.
C14_AcceptedEstimatesAreFrozen ==
    [][\A e \in 1..Len(estimates) :
        estimates[e].status = "accepted" => Terms(estimates'[e]) = Terms(estimates[e])
    ]_vars

\* The business that owns a row of the store.
OwnerOf(row) ==
    CASE row[1] = "clients" -> clients[row[2]].user_id
      [] row[1] = "estimates" -> estimates[row[2]].user_id
      [] row[1] = "visits" -> visits[row[2]].user_id
      [] row[1] = "invoices" -> invoices[row[2]].user_id

\* Every row the step answered with belongs to business u.
ReadsOnly(u) == \A row \in response'.rows : OwnerOf(row) = u

\* Every row the step inserted or changed belongs to business u, before and
\* after, hangs on a client of u, and a visit it linked hangs on an invoice
\* of u.
WritesOnly(u) ==
    /\ \A c \in ClientIds :
        clients'[c] # clients[c] => clients[c].user_id = u /\ clients'[c].user_id = u
    /\ \A e \in 1..Len(estimates') :
        (e > Len(estimates) \/ estimates'[e] # estimates[e]) =>
            /\ estimates'[e].user_id = u
            /\ e <= Len(estimates) => estimates[e].user_id = u
            /\ clients[estimates'[e].client_id].user_id = u
    /\ \A v \in 1..Len(visits') :
        (v > Len(visits) \/ visits'[v] # visits[v]) =>
            /\ visits'[v].user_id = u
            /\ v <= Len(visits) => visits[v].user_id = u
            /\ clients[visits'[v].client_id].user_id = u
            /\ visits'[v].invoice_id # NULL => invoices'[Val(visits'[v].invoice_id)].user_id = u
    /\ \A k \in 1..Len(invoices') :
        (k > Len(invoices) \/ invoices'[k] # invoices[k]) =>
            /\ invoices'[k].user_id = u
            /\ k <= Len(invoices) => invoices[k].user_id = u
            /\ clients[invoices'[k].client_id].user_id = u

C21_TypeFollowsLifecycle ==
    [][\A c \in DOMAIN clients' :
        /\ clients'[c].type \in ClientTypes
        /\ (c \in DOMAIN clients /\ clients'[c].type # clients[c].type) =>
            <<clients[c].type, clients'[c].type>>
                \in {<<"prospect", "client">>, <<"client", "inactive">>}]_vars

\* C22: in every reachable state an estimate whose frequency is one_time has
\* its monthly-rate flag false, whatever flag the create and edit forms
\* submitted.
C22_OneTimeShowsNoMonthlyRate ==
    \A e \in 1..Len(estimates) :
        estimates[e].frequency = "one_time" => ~estimates[e].show_monthly_rate

\* C22 witness: an edit, submitted with the flag on, has just made an estimate
\* one_time, and the flag of that estimate is off.
C22_Witness ==
    /\ last = "edit_estimate"
    /\ response.route = "edit_estimate" /\ response.outcome = "updated"
    /\ TRUE \in Flags
    /\ \E e \in 1..Len(estimates) :
        estimates[e].frequency = "one_time" /\ ~estimates[e].show_monthly_rate

\* The invoices of the business that were created last.
MostRecent(invs, user_id) ==
    {i \in 1..Len(invs) :
        /\ invs[i].user_id = user_id
        /\ \A j \in 1..Len(invs) :
            invs[j].user_id = user_id => invs[j].created_at <= invs[i].created_at}

\* The number reads INV- followed by an integer.
ParsesAsNumber(text) ==
    /\ Len(text) > Len(InvPrefix)
    /\ SubSeq(text, 1, Len(InvPrefix)) = InvPrefix
    /\ \A i \in (Len(InvPrefix) + 1)..Len(text) : text[i] \in Digits

\* INV- and n in decimal, with zeros in front up to 4 digits.
Numbered(n) ==
    LET digits == NatToDigits(n)
    IN  InvPrefix \o [i \in 1..(4 - Len(digits)) |-> "0"] \o digits

\* The number the next invoice is to carry after an invoice numbered text.
NumberAfter(text) ==
    IF ParsesAsNumber(text)
    THEN Numbered(DigitsToNat(SubSeq(text, Len(InvPrefix) + 1, Len(text))) + 1)
    ELSE Numbered(1)

C30_PaidStaysPaid ==
    [][\A k \in 1..Len(invoices) :
        invoices[k].status = "paid" => invoices'[k].status = "paid"]_vars

\* C27: a reschedule request changes the date and time of the visit it
\* names and nothing else (not its status, recurrence, price or invoice link,
\* no other visit, no new visit), and changes nothing at all when the new
\* date is no calendar date.
C27_RescheduleMovesOnlyTheVisit ==
    [][WrittenBy({"reschedule_visit"}) =>
        \A u \in Users, v \in VisitIds, d \in DateTexts, t \in Times :
            reschedule_visit(u, v, d, t) =>
                /\ ParseDate(d) # NULL
                /\ Len(visits') = Len(visits)
                /\ \A i \in VisitIds : i # v => visits'[i] = visits[i]
                /\ visits'[v] = [visits[v] EXCEPT !.scheduled_date = Val(ParseDate(d)),
                                                   !.scheduled_time = t]
                /\ invoices' = invoices
    ]_vars

\* C27 witness: a completed visit was just moved to another date and is
\* still completed.
C27_Witness ==
    /\ last = "reschedule_visit"
    /\ visits[1].status = "completed"
    /\ visits[1].scheduled_date # History[1].scheduled_date
    /\ visits[1].completed_at = History[1].completed_at

\* C28: a cancel request changes only a visit whose status is scheduled, so
\* a completed or cancelled visit is left as it is and a completed visit
\* never becomes cancelled.
C28_OnlyScheduledVisitsCancel ==
    [][/\ \A v \in VisitIds :
            visits[v].status = "completed" => visits'[v].status # "cancelled"
       /\ WrittenBy({"cancel_visit"}) =>
            /\ \A v \in VisitIds : visits'[v] # visits[v] => visits[v].status = "scheduled"
            /\ Len(visits') = Len(visits) /\ invoices' = invoices
    ]_vars

\* C28 witness: a cancel request was the last to write, the visits completed
\* before are completed still, and requests are still being served.
C28_Witness ==
    /\ last = "cancel_visit"
    /\ Serving
    /\ \E v \in VisitIds : visits[v].status = "cancelled"
    /\ \A v \in 1..Len(History) : visits[v].status = "completed"

\* The client's scheduled recurring visits dated today or later (their ids).
FutureOf(vs, client_id) ==
    {i \in 1..Len(vs) :
        /\ vs[i].client_id = client_id
        /\ vs[i].status = "scheduled"
        /\ vs[i].is_recurring
        /\ vs[i].scheduled_date >= Today}

\* The visits that were in the table before the step, as the step left them.
Kept == SubSeq(visits', 1, Len(visits))

\* The ids of the visits the step inserted.
Inserted == (Len(visits) + 1)..Len(visits')

\* The latest date among the rows, or today when there is none.
Anchor(vs, rows) ==
    IF rows = {} THEN Today
    ELSE vs[CHOOSE i \in rows : \A j \in rows : vs[j].scheduled_date <= vs[i].scheduled_date].scheduled_date

\* The step is a completion of visit v through the form route, answered
\* "Visit marked as complete.": v carries the timestamp of this request.
Completing(v) ==
    /\ WrittenBy({"complete_visit"})
    /\ response'.route = "complete_visit" /\ response'.outcome = "completed"
    /\ visits'[v].status = "completed"
    /\ visits'[v].completed_at = Some(clock)

\* C24 as stated: replenishment leaves every existing visit as it is,
\* inserts nothing when the client has 8 or more future scheduled recurring
\* visits, and dates every visit it inserts strictly later than each of those.
C24_ReplenishmentOnlyAppendsLater ==
    [][\A v \in VisitIds :
        (Completing(v) /\ Recurs(visits[v])) =>
            LET future == FutureOf(Kept, visits[v].client_id)
            IN  /\ OnlyCompletionOf(v, visits, Kept)
                /\ Cardinality(future) >= 8 => Inserted = {}
                /\ \A i \in Inserted, j \in future :
                    visits'[i].scheduled_date > visits'[j].scheduled_date
    ]_vars

\* C25: replenishment running with k < 8 future scheduled recurring visits
\* inserts exactly 8 - k visits, the j-th dated anchor + j * interval, the
\* anchor being the latest date among the k visits, or today when k = 0.
C25_ReplenishmentFillsFromAnchor ==
    [][\A v \in VisitIds :
        (Completing(v) /\ Recurs(visits[v])) =>
            LET future == FutureOf(Kept, visits[v].client_id)
                k == Cardinality(future)
                interval == get_interval_days(Val(visits[v].recurring_frequency))
            IN  k < 8 =>
                    /\ Len(visits') = Len(visits) + (8 - k)
                    /\ \A j \in 1..(8 - k) :
                        visits'[Len(visits) + j].scheduled_date
                            = Anchor(Kept, future) + j * interval
    ]_vars

\* C25 witness: a weekly schedule of 8 visits from today was created, its
\* first visit completed, and one visit inserted a week after the eighth.
C25_Witness ==
    /\ last = "complete_visit"
    /\ Len(visits) = 9
    /\ visits[1].status = "completed" /\ visits[1].scheduled_date = Today
    /\ \A i \in 2..9 : visits[i].status = "scheduled" /\ visits[i].is_recurring
    /\ visits[8].scheduled_date = Today + 49
    /\ visits[9].scheduled_date = visits[8].scheduled_date + 7

AnsweredFailed ==
    /\ response'.route = "complete_visit" /\ response'.outcome = "failed"
    /\ response' # response \/ WrittenBy({"complete_visit"})

\* C29: visits are inserted only in a request whose completion update went
\* through; when that update fails nothing is written; and when replenishment
\* fails after it the visit is completed all the same.
C29_CompletionAndReplenishmentFailApart ==
    [][/\ (WrittenBy({"complete_visit"}) /\ Inserted # {}) =>
            \E v \in VisitIds :
                visits'[v].status = "completed" /\ visits'[v].completed_at = Some(clock)
       /\ AnsweredFailed =>
            \A u \in Users, v \in VisitIds, n \in WindowNotes, x \in Failures :
                complete_visit_try(u, v, n, x) =>
                    /\ x \in {"lookup", "update"} => visits' = visits
                    /\ x \in {"count", "insert"} =>
                            /\ visits'[v].status = "completed"
                            /\ visits'[v].completion_notes = n
                            /\ visits'[v].completed_at = Some(clock)
                            /\ Inserted = {}
    ]_vars

\* C29 witness: a recurring visit is completed, the request answered that it
\* failed, and the client is left with fewer than 8 future visits: its
\* replenishment failed.
C29_Witness ==
    /\ response.route = "complete_visit" /\ response.outcome = "failed"
    /\ last = "complete_visit"
    /\ \E v \in VisitIds :
        /\ JustCompleted(v) /\ Recurs(visits[v])
        /\ FutureCount(visits, visits[v].client_id) < 8

====
